---- MODULE Spec2Model ----
(***************************************************************************)
(* Model of googlebooks-rs: the VolumeQuery builder and its URL            *)
(* construction (src/src/queries.rs) and the GoogleBooks client with its   *)
(* response resolution (src/src/lib.rs, src/src/models.rs,                 *)
(* src/src/errors.rs).                                                     *)
(*                                                                         *)
(* A Rust String is a sequence of one-character strings, so that           *)
(* concatenation, percent-encoding and the reading of a URL's query are    *)
(* computed. Option<T> is [some |-> FALSE] or [some |-> TRUE, val |-> x].  *)
(***************************************************************************)
EXTENDS Integers, Sequences, FiniteSets, TLC

VARIABLES
    query,      \* Option<VolumeQuery>: the value the builder chain holds
    url,        \* Option<String>: the URL last built from it / requested
    log,        \* observation: the builder calls made so far, in order
    api_key,    \* GoogleBooks.api_key: Option<String>
    pc,         \* position of the client call: idle, awaiting, responded,
                \* decoding, done
    call,       \* which client call is running: none, search, search_by_id
    gets,       \* observation: reqwest::get calls issued by the running call
    decodes,    \* observation: response.json() calls made by the running call
    response,   \* Option<[status, body]>: what the transport answered; body
                \* is an Option, None until it has been read
    result      \* Option<Result<VolumeResponse, AppError>> of the call

vars == <<query, url, log, api_key, pc, call, gets, decodes, response, result>>

clientVars == <<api_key, pc, call, gets, decodes, response, result>>

----------------------------------------------------------------------------
(* Option<T> *)

None == [some |-> FALSE]

Some(x) == [some |-> TRUE, val |-> x]

----------------------------------------------------------------------------
(* Bounds of the model *)

\* number of builder calls made on a query after its constructor
MaxCalls == 2

\* length of the "errors" list of an error envelope
MaxErrors == 2

----------------------------------------------------------------------------
(* Strings *)

Digit == <<"0", "1", "2", "3", "4", "5", "6", "7", "8", "9">>

RECURSIVE NatToString(_)
NatToString(n) ==
    IF n < 10 THEN <<Digit[n + 1]>>
    ELSE NatToString(n \div 10) \o <<Digit[(n % 10) + 1]>>

\* i32::to_string: decimal, with a leading '-' for a negative number
to_string(n) == IF n < 0 THEN <<"-">> \o NatToString(0 - n) ELSE NatToString(n)

----------------------------------------------------------------------------
(* Projection and PrintType, and their Display renderings *)

Projections == {"Full", "Lite"}

PrintTypes == {"All", "Books", "Magazines"}

Projection_fmt(p) ==
    CASE p = "Full" -> <<"f", "u", "l", "l">>
      [] p = "Lite" -> <<"l", "i", "t", "e">>

PrintType_fmt(p) ==
    CASE p = "Books" -> <<"b", "o", "o", "k", "s">>
      [] p = "All" -> <<"a", "l", "l">>
      [] p = "Magazines" -> <<"m", "a", "g", "a", "z", "i", "n", "e", "s">>

----------------------------------------------------------------------------
(* VolumeQuery: constructors, conjunctive calls, option setters *)

new(search) ==
    [q |-> search,
     max_results |-> None,
     start_index |-> None,
     lang_restrict |-> None,
     projection |-> None,
     print_type |-> None]

isbn(v) == new(<<"i", "s", "b", "n", ":">> \o v)

title(v) == new(<<"i", "n", "t", "i", "t", "l", "e", ":">> \o v)

author(v) == new(<<"i", "n", "a", "u", "t", "h", "o", "r", ":">> \o v)

publisher(v) ==
    new(<<"i", "n", "p", "u", "b", "l", "i", "s", "h", "e", "r", ":">> \o v)

subject(v) == new(<<"s", "u", "b", "j", "e", "c", "t", ":">> \o v)

lccn(v) == new(<<"l", "c", "c", "n", ":">> \o v)

oclc(v) == new(<<"o", "c", "l", "c", ":">> \o v)

and_isbn(self, v) ==
    [self EXCEPT !.q = @ \o (<<" ", "i", "s", "b", "n", ":">> \o v)]

and_title(self, v) ==
    [self EXCEPT !.q = @ \o (<<" ", "i", "n", "t", "i", "t", "l", "e", ":">> \o v)]

\* a conjunctive call that forgets the separating space
and_author_nospace(self, v) ==
    [self EXCEPT !.q = @ \o (<<"i", "n", "a", "u", "t", "h", "o", "r", ":">> \o v)]

and_author(self, v) ==
    [self EXCEPT
        !.q = @ \o (<<" ", "i", "n", "a", "u", "t", "h", "o", "r", ":">> \o v)]

and_publisher(self, v) ==
    [self EXCEPT
        !.q = @ \o (<<" ", "i", "n", "p", "u", "b", "l", "i", "s", "h", "e", "r",
                      ":">> \o v)]

and_subject(self, v) ==
    [self EXCEPT
        !.q = @ \o (<<" ", "s", "u", "b", "j", "e", "c", "t", ":">> \o v)]

and_lccn(self, v) ==
    [self EXCEPT !.q = @ \o (<<" ", "l", "c", "c", "n", ":">> \o v)]

and_oclc(self, v) ==
    [self EXCEPT !.q = @ \o (<<" ", "o", "c", "l", "c", ":">> \o v)]

max_results(self, max) == [self EXCEPT !.max_results = Some(max)]

\* a setter that keeps the first value given instead of the last
start_index_keep_first(self, index) ==
    IF self.start_index.some THEN self
    ELSE [self EXCEPT !.start_index = Some(index)]

start_index(self, index) == [self EXCEPT !.start_index = Some(index)]

lang_restrict(self, lang) == [self EXCEPT !.lang_restrict = Some(lang)]

projection(self, p) == [self EXCEPT !.projection = Some(p)]

print_type(self, p) == [self EXCEPT !.print_type = Some(p)]

----------------------------------------------------------------------------
(* URL construction *)

GOOGLE_BOOKS_BASE_URL ==
    <<"h", "t", "t", "p", "s", ":", "/", "/", "w", "w", "w", ".", "g", "o",
      "o", "g", "l", "e", "a", "p", "i", "s", ".", "c", "o", "m">>

VolumesPath ==
    <<"/", "b", "o", "o", "k", "s", "/", "v", "1", "/", "v", "o", "l", "u",
      "m", "e", "s">>

\* the bytes application/x-www-form-urlencoded leaves as they are
Unreserved ==
    {"a", "b", "c", "d", "e", "f", "g", "h", "i", "j", "k", "l", "m", "n",
     "o", "p", "q", "r", "s", "t", "u", "v", "w", "x", "y", "z",
     "A", "B", "C", "D", "E", "F", "G", "H", "I", "J", "K", "L", "M", "N",
     "O", "P", "Q", "R", "S", "T", "U", "V", "W", "X", "Y", "Z",
     "0", "1", "2", "3", "4", "5", "6", "7", "8", "9", "*", "-", ".", "_"}

\* form_urlencoded::byte_serialize on one (ASCII) character, as used by
\* Url::query_pairs_mut: unreserved bytes unchanged, space as '+', any other
\* byte as %XX
byte_serialize(c) ==
    IF c \in Unreserved THEN <<c>>
    ELSE CASE c = " " -> <<"+">>
           [] c = ":" -> <<"%", "3", "A">>
           [] c = "&" -> <<"%", "2", "6">>
           [] c = "=" -> <<"%", "3", "D">>
           [] c = "+" -> <<"%", "2", "B">>
           [] c = "%" -> <<"%", "2", "5">>
           [] c = "/" -> <<"%", "2", "F">>
           [] c = "?" -> <<"%", "3", "F">>
           [] c = "#" -> <<"%", "2", "3">>

RECURSIVE form_urlencode(_)
form_urlencode(s) ==
    IF s = <<>> THEN <<>>
    ELSE byte_serialize(Head(s)) \o form_urlencode(Tail(s))

RECURSIVE append_pairs(_)
\* Serializer::extend_pairs: name=value, the pairs joined by '&'
append_pairs(pairs) ==
    IF pairs = <<>> THEN <<>>
    ELSE form_urlencode(Head(pairs)[1]) \o <<"=">> \o form_urlencode(Head(pairs)[2])
         \o (IF Tail(pairs) = <<>> THEN <<>> ELSE <<"&">> \o append_pairs(Tail(pairs)))

\* reqwest::Url::parse_with_params: the parsed URL followed by '?' and the
\* serialized pairs. The URLs given here (scheme, host, a plain path) are
\* already in the form Url::parse serializes them to.
parse_with_params(base_url, queries) ==
    base_url \o <<"?">> \o append_pairs(queries)

\* the vector of (name, value) pairs build_url pushes, in order
build_url_queries(self) ==
    <<<< <<"q">>, self.q >>>>
    \o (IF self.max_results.some
        THEN <<<< <<"m", "a", "x", "R", "e", "s", "u", "l", "t", "s">>,
                  to_string(self.max_results.val) >>>>
        ELSE <<>>)
    \o (IF self.start_index.some
        THEN <<<< <<"s", "t", "a", "r", "t", "I", "n", "d", "e", "x">>,
                  to_string(self.start_index.val) >>>>
        ELSE <<>>)
    \o (IF self.start_index.some
        THEN <<<< <<"s", "t", "a", "r", "t", "I", "n", "d", "e", "x">>,
                  to_string(self.start_index.val) >>>>
        ELSE <<>>)
    \o (IF self.lang_restrict.some
        THEN <<<< <<"l", "a", "n", "g", "R", "e", "s", "t", "r", "i", "c", "t">>,
                  self.lang_restrict.val >>>>
        ELSE <<>>)
    \o (IF self.projection.some
        THEN <<<< <<"p", "r", "o", "j", "e", "c", "t", "i", "o", "n">>,
                  Projection_fmt(self.projection.val) >>>>
        ELSE <<>>)
    \o (IF self.print_type.some
        THEN <<<< <<"p", "r", "o", "j", "e", "c", "t", "i", "o", "n">>,
                  PrintType_fmt(self.print_type.val) >>>>
        ELSE <<>>)

\* VolumeQuery::build_url(&self, base): it has no parameter for an API key and
\* pushes no "key" pair
build_url(self, base) ==
    parse_with_params(base \o VolumesPath, build_url_queries(self))

----------------------------------------------------------------------------
(* Inputs of the builder calls *)

\* the strings given to constructors and conjunctive calls: the empty string,
\* and one with a space and a character the query encoding must escape
Values == {<<>>, <<"A", " ", "&">>}

MaxResultsArgs == {0 - 1, 5}

StartIndexArgs == {0, 10}

Langs == {<<"f", "r">>, <<"e", "n">>}

----------------------------------------------------------------------------
(* Builder steps. A constructor starts a chain; every other call consumes   *)
(* the value and returns the updated one. url is the URL built from the    *)
(* current value, if build_url was called on it.                           *)

\* no chain has been started
Fresh == ~query.some

\* a chain has been started and may take one more call
Chaining == query.some /\ Len(log) <= MaxCalls

\* a constructor call: op(arg) is the new value
Construct(op, arg, value) ==
    /\ query' = Some(value)
    /\ url' = None
    /\ log' = <<[op |-> op, arg |-> arg]>>
    /\ UNCHANGED clientVars

\* a chained call: op(arg) on the current value gives value
Chain(op, arg, value) ==
    /\ query' = Some(value)
    /\ url' = None
    /\ log' = Append(log, [op |-> op, arg |-> arg])
    /\ UNCHANGED clientVars

New ==
    /\ Fresh
    /\ \E v \in Values :
        Construct("new", v, new(v))

Isbn ==
    /\ Fresh
    /\ \E v \in Values :
        Construct("isbn", v, isbn(v))

Title ==
    /\ Fresh
    /\ \E v \in Values :
        Construct("title", v, title(v))

Author ==
    /\ Fresh
    /\ \E v \in Values :
        Construct("author", v, author(v))

Publisher ==
    /\ Fresh
    /\ \E v \in Values :
        Construct("publisher", v, publisher(v))

Subject ==
    /\ Fresh
    /\ \E v \in Values :
        Construct("subject", v, subject(v))

Lccn ==
    /\ Fresh
    /\ \E v \in Values :
        Construct("lccn", v, lccn(v))

Oclc ==
    /\ Fresh
    /\ \E v \in Values :
        Construct("oclc", v, oclc(v))

AndIsbn ==
    /\ Chaining
    /\ \E v \in Values :
        Chain("and_isbn", v, and_isbn(query.val, v))

AndTitle ==
    /\ Chaining
    /\ \E v \in Values :
        Chain("and_title", v, and_title(query.val, v))

AndAuthor ==
    /\ Chaining
    /\ \E v \in Values :
        Chain("and_author", v, and_author(query.val, v))

AndPublisher ==
    /\ Chaining
    /\ \E v \in Values :
        Chain("and_publisher", v, and_publisher(query.val, v))

AndSubject ==
    /\ Chaining
    /\ \E v \in Values :
        Chain("and_subject", v, and_subject(query.val, v))

AndLccn ==
    /\ Chaining
    /\ \E v \in Values :
        Chain("and_lccn", v, and_lccn(query.val, v))

AndOclc ==
    /\ Chaining
    /\ \E v \in Values :
        Chain("and_oclc", v, and_oclc(query.val, v))

MaxResults ==
    /\ Chaining
    /\ \E n \in MaxResultsArgs :
        Chain("max_results", n, max_results(query.val, n))

StartIndex ==
    /\ Chaining
    /\ \E n \in StartIndexArgs :
        Chain("start_index", n, start_index(query.val, n))

LangRestrict ==
    /\ Chaining
    /\ \E l \in Langs :
        Chain("lang_restrict", l, lang_restrict(query.val, l))

SetProjection ==
    /\ Chaining
    /\ \E p \in Projections :
        Chain("projection", p, projection(query.val, p))

SetPrintType ==
    /\ Chaining
    /\ \E p \in PrintTypes :
        Chain("print_type", p, print_type(query.val, p))

\* query.build_url(base) on the current value (&self: the value stays)
BuildUrl ==
    /\ query.some
    /\ ~url.some
    /\ url' = Some(build_url(query.val, GOOGLE_BOOKS_BASE_URL))
    /\ UNCHANGED <<query, log>>
    /\ UNCHANGED clientVars

----------------------------------------------------------------------------
(* The builder's specification *)

Init ==
    /\ query = None
    /\ url = None
    /\ log = <<>>
    /\ api_key = None
    /\ pc = "idle"
    /\ call = "none"
    /\ gets = 0
    /\ decodes = 0
    /\ response = None
    /\ result = None

Next ==
    \/ New \/ Isbn \/ Title \/ Author \/ Publisher \/ Subject \/ Lccn \/ Oclc
    \/ AndIsbn \/ AndTitle \/ AndAuthor \/ AndPublisher \/ AndSubject
    \/ AndLccn \/ AndOclc
    \/ MaxResults \/ StartIndex \/ LangRestrict \/ SetProjection \/ SetPrintType
    \/ BuildUrl

Spec == Init /\ [][Next]_vars

----------------------------------------------------------------------------
(* The wire: HTTP statuses and response bodies *)

Statuses == {200, 204, 299, 300, 404, 429, 500}

\* reqwest::StatusCode::is_success: 200..=299
is_success(status) == 200 <= status /\ status <= 299

Messages == {"Quota exceeded", "Not Found"}

Reasons == {"rateLimitExceeded", "notFound"}

\* an item of an envelope's "errors" list; its "reason" may be missing
ErrorItems ==
    [message : {"m"}, domain : {"global"},
     reason : {None} \cup {Some(r) : r \in Reasons}]

RECURSIVE SeqsUpTo(_, _)
\* the sequences over S of length at most n
SeqsUpTo(S, n) ==
    IF n = 0 THEN {<<>>}
    ELSE SeqsUpTo(S, n - 1)
         \cup {Append(t, x) : t \in {u \in SeqsUpTo(S, n - 1) : Len(u) = n - 1},
                              x \in S}

\* the "error" member of a body: code is any JSON number, message and errors
\* may be missing
ErrorObjects ==
    [code : {404, 429, 65536},
     message : {None} \cup {Some(m) : m \in Messages},
     errors : {None} \cup {Some(l) : l \in SeqsUpTo(ErrorItems, MaxErrors)}]

\* a response body: not JSON at all, or a JSON object of which the members
\* the two decoders look at are described (any of them may be missing)
Bodies ==
    {[json |-> FALSE]}
    \cup [json : {TRUE},
          kind : {None, Some("books#volumes")},
          totalItems : {None, Some(0)},
          error : {None} \cup {Some(e) : e \in ErrorObjects}]

----------------------------------------------------------------------------
(* Decoding (serde, through reqwest's Response::json) *)

DecodeOk(v) == [ok |-> TRUE, val |-> v]

DecodeErr == [ok |-> FALSE]

\* response.json::<VolumeResponse>(): kind: String and totalItems: i32 are
\* required, items is optional; unknown members are ignored. The totalItems
\* of Bodies are within i32.
json_VolumeResponse(body) ==
    IF /\ body.json
       /\ body.kind.some
       /\ body.totalItems.some
    THEN DecodeOk([kind |-> body.kind.val,
                   total_items |-> body.totalItems.val,
                   items |-> None])
    ELSE DecodeErr

\* response.json::<GoogleApiError>(): error.code: u16 and error.message:
\* String are required, error.errors is optional and each of its items needs
\* message, domain and reason
json_GoogleApiError(body) ==
    IF /\ body.json
       /\ body.error.some
       /\ body.error.val.code >= 0
       /\ body.error.val.code <= 65535
       /\ body.error.val.message.some
       /\ body.error.val.errors.some =>
            \A i \in 1..Len(body.error.val.errors.val) :
                body.error.val.errors.val[i].reason.some
    THEN DecodeOk(
            [error |->
                [code |-> body.error.val.code,
                 message |-> body.error.val.message.val,
                 errors |->
                    IF body.error.val.errors.some
                    THEN Some([i \in 1..Len(body.error.val.errors.val) |->
                                [message |-> body.error.val.errors.val[i].message,
                                 domain |-> body.error.val.errors.val[i].domain,
                                 reason |->
                                    body.error.val.errors.val[i].reason.val]])
                    ELSE None]])
    ELSE DecodeErr

----------------------------------------------------------------------------
(* Result<VolumeResponse, AppError> *)

Ok(v) == [tag |-> "Ok", val |-> v]

Err_Http == [tag |-> "Http"]

Err_DeserializeJson == [tag |-> "DeserializeJson"]

Err_RateLimitExceeded(m) == [tag |-> "RateLimitExceeded", message |-> m]

Err_GoogleApi(c, m, r) ==
    [tag |-> "GoogleApi", code |-> c, message |-> m, reason |-> r]

\* errors.and_then(|e| e.first().map(|i| i.reason.clone()))
first_reason(errors) ==
    IF errors.some /\ errors.val # <<>> THEN Some(errors.val[1].reason) ELSE None

\* the reason of the last item instead of the first
last_reason(errors) ==
    IF errors.some /\ errors.val # <<>>
    THEN Some(errors.val[Len(errors.val)].reason)
    ELSE None

\* search, once the response is there: the status gates which shape is decoded
search_resolve_sniffing(status, body) ==
    IF json_GoogleApiError(body).ok
    THEN LET error_body == json_GoogleApiError(body).val
         IN IF error_body.error.code = 429
            THEN Err_RateLimitExceeded(error_body.error.message)
            ELSE Err_GoogleApi(error_body.error.code, error_body.error.message,
                               first_reason(error_body.error.errors))
    ELSE IF json_VolumeResponse(body).ok
         THEN Ok(json_VolumeResponse(body).val)
         ELSE Err_DeserializeJson

search_resolve_by_status(status, body) ==
    IF ~is_success(status)
    THEN IF ~json_GoogleApiError(body).ok THEN Err_DeserializeJson
         ELSE LET error_body == json_GoogleApiError(body).val
              IN IF status = 429
                 THEN Err_RateLimitExceeded(error_body.error.message)
                 ELSE Err_GoogleApi(error_body.error.code,
                                    error_body.error.message,
                                    first_reason(error_body.error.errors))
    ELSE IF json_VolumeResponse(body).ok
         THEN Ok(json_VolumeResponse(body).val)
         ELSE Err_DeserializeJson

search_resolve_last_reason(status, body) ==
    IF ~is_success(status)
    THEN IF ~json_GoogleApiError(body).ok THEN Err_DeserializeJson
         ELSE LET error_body == json_GoogleApiError(body).val
              IN IF error_body.error.code = 429
                 THEN Err_RateLimitExceeded(error_body.error.message)
                 ELSE Err_GoogleApi(error_body.error.code,
                                    error_body.error.message,
                                    last_reason(error_body.error.errors))
    ELSE IF json_VolumeResponse(body).ok
         THEN Ok(json_VolumeResponse(body).val)
         ELSE Err_DeserializeJson

search_resolve(status, body) ==
    IF ~is_success(status)
    THEN IF ~json_GoogleApiError(body).ok THEN Err_DeserializeJson
         ELSE LET error_body == json_GoogleApiError(body).val
              IN IF error_body.error.code = 429
                 THEN Err_RateLimitExceeded(error_body.error.message)
                 ELSE Err_GoogleApi(error_body.error.code,
                                    error_body.error.message,
                                    first_reason(error_body.error.errors))
    ELSE IF json_VolumeResponse(body).ok
         THEN Ok(json_VolumeResponse(body).val)
         ELSE Err_DeserializeJson

\* search_by_id, once the response is there (the same code again)
search_by_id_resolve(status, body) ==
    IF ~is_success(status)
    THEN IF ~json_GoogleApiError(body).ok THEN Err_DeserializeJson
         ELSE LET error_body == json_GoogleApiError(body).val
              IN IF error_body.error.code = 429
                 THEN Err_RateLimitExceeded(error_body.error.message)
                 ELSE Err_GoogleApi(error_body.error.code,
                                    error_body.error.message,
                                    first_reason(error_body.error.errors))
    ELSE IF json_VolumeResponse(body).ok
         THEN Ok(json_VolumeResponse(body).val)
         ELSE Err_DeserializeJson

----------------------------------------------------------------------------
(* The client: GoogleBooks::search and GoogleBooks::search_by_id *)

ApiKeys == {None, Some(<<"K", "1">>)}

\* the queries handed to search
SampleQueries ==
    {new(<<"A">>),
     max_results(isbn(<<"A">>), 5),
     print_type(lang_restrict(title(<<"A", " ", "&">>), <<"f", "r">>), "Books")}

Ids == {<<"z", "y">>}

\* build_url with the Option<String> parameter the call of search passes, the
\* key pushed as the last pair when there is one. No function of the source
\* has this form: it is one of the two ways the call of search can be read.
build_url_key_last(self, base, key) ==
    parse_with_params(
        base \o VolumesPath,
        build_url_queries(self)
        \o (IF key.some THEN <<<< <<"k", "e", "y">>, key.val >>>> ELSE <<>>))

\* The URLs query.build_url(GOOGLE_BOOKS_BASE_URL, self.api_key.clone()) may
\* stand for. The call has two arguments and VolumeQuery::build_url, the only
\* build_url there is, one parameter: as written the call is ill-typed and
\* the source says nothing of what it yields. Either the call means the
\* build_url that exists, which cannot see the key, or build_url was meant to
\* take the key. Both are kept; neither is chosen.
search_urls(q, key) ==
    {build_url(q, GOOGLE_BOOKS_BASE_URL),
     build_url_key_last(q, GOOGLE_BOOKS_BASE_URL, key)}

\* search(&self, query): the URL is built from the query and one reqwest::get
\* is issued on it
Search ==
    /\ pc = "idle"
    /\ \E q \in SampleQueries :
        /\ query' = Some(q)
        /\ \E u \in search_urls(q, api_key) : url' = Some(u)
    /\ call' = "search"
    /\ gets' = gets + 1
    /\ pc' = "awaiting"
    /\ UNCHANGED <<log, api_key, decodes, response, result>>

\* search_by_id(id): one reqwest::get on <base>/books/v1/volumes/<id>
SearchById ==
    /\ pc = "idle"
    /\ \E id \in Ids :
        url' = Some(GOOGLE_BOOKS_BASE_URL \o VolumesPath \o <<"/">> \o id)
    /\ call' = "search_by_id"
    /\ gets' = gets + 1
    /\ pc' = "awaiting"
    /\ UNCHANGED <<query, log, api_key, decodes, response, result>>

\* a failed GET that is issued again
GetFailsAndRetries ==
    /\ pc = "awaiting"
    /\ gets' = gets + 1
    /\ UNCHANGED <<query, url, log, api_key, pc, call, decodes, response, result>>

\* the GET fails: .context(HttpSnafu)? returns the Http error
GetFails ==
    /\ pc = "awaiting"
    /\ result' = Some(Err_Http)
    /\ pc' = "done"
    /\ UNCHANGED <<query, url, log, api_key, call, gets, decodes, response>>

\* the GET completes: the response is there with its status, its body not
\* yet read
GetCompletes ==
    /\ pc = "awaiting"
    /\ \E status \in Statuses :
        response' = Some([status |-> status, body |-> None])
    /\ pc' = "responded"
    /\ UNCHANGED <<query, url, log, api_key, call, gets, decodes, result>>

\* search tests the status and calls response.json(), in the branch the status
\* picks, then awaits the body
SearchCallsJson ==
    /\ pc = "responded"
    /\ call = "search"
    /\ decodes' = decodes + 1
    /\ pc' = "decoding"
    /\ UNCHANGED <<query, url, log, api_key, call, gets, response, result>>

\* the body is delivered, decoded in the shape asked for, and search returns.
\* (A body that cannot be read fails the decoding as one that is not JSON.)
SearchReturns ==
    /\ pc = "decoding"
    /\ call = "search"
    /\ \E body \in Bodies :
        /\ response' = Some([status |-> response.val.status, body |-> Some(body)])
        /\ result' = Some(search_resolve(response.val.status, body))
    /\ pc' = "done"
    /\ UNCHANGED <<query, url, log, api_key, call, gets, decodes>>

\* search_by_id tests the status and calls response.json(), then awaits the
\* body
SearchByIdCallsJson ==
    /\ pc = "responded"
    /\ call = "search_by_id"
    /\ decodes' = decodes + 1
    /\ pc' = "decoding"
    /\ UNCHANGED <<query, url, log, api_key, call, gets, response, result>>

\* the body is delivered, decoded, and search_by_id returns
SearchByIdReturns ==
    /\ pc = "decoding"
    /\ call = "search_by_id"
    /\ \E body \in Bodies :
        /\ response' = Some([status |-> response.val.status, body |-> Some(body)])
        /\ result' = Some(search_by_id_resolve(response.val.status, body))
    /\ pc' = "done"
    /\ UNCHANGED <<query, url, log, api_key, call, gets, decodes>>

\* GoogleBooks::new(api_key), no call made yet
InitClient ==
    /\ query = None
    /\ url = None
    /\ log = <<>>
    /\ api_key \in ApiKeys
    /\ pc = "idle"
    /\ call = "none"
    /\ gets = 0
    /\ decodes = 0
    /\ response = None
    /\ result = None

NextClient ==
    \/ Search \/ SearchById
    \/ GetFails \/ GetCompletes
    \/ SearchCallsJson \/ SearchReturns
    \/ SearchByIdCallsJson \/ SearchByIdReturns

SpecClient == InitClient /\ [][NextClient]_vars

----------------------------------------------------------------------------
(* What the calls made so far say the query should be: read from log alone *)

NamedConstructors ==
    {"isbn", "title", "author", "publisher", "subject", "lccn", "oclc"}

ConjunctiveCalls ==
    {"and_isbn", "and_title", "and_author", "and_publisher", "and_subject",
     "and_lccn", "and_oclc"}

OptionSetters ==
    {"max_results", "start_index", "lang_restrict", "projection", "print_type"}

\* the fixed prefix of a field, for its constructor and its conjunctive call
PrefixOf(op) ==
    CASE op \in {"isbn", "and_isbn"} -> <<"i", "s", "b", "n">>
      [] op \in {"title", "and_title"} -> <<"i", "n", "t", "i", "t", "l", "e">>
      [] op \in {"author", "and_author"} ->
            <<"i", "n", "a", "u", "t", "h", "o", "r">>
      [] op \in {"publisher", "and_publisher"} ->
            <<"i", "n", "p", "u", "b", "l", "i", "s", "h", "e", "r">>
      [] op \in {"subject", "and_subject"} ->
            <<"s", "u", "b", "j", "e", "c", "t">>
      [] op \in {"lccn", "and_lccn"} -> <<"l", "c", "c", "n">>
      [] op \in {"oclc", "and_oclc"} -> <<"o", "c", "l", "c">>

\* the piece of the term one call contributes
TermPiece(e) ==
    CASE e.op = "new" -> e.arg
      [] e.op \in NamedConstructors -> PrefixOf(e.op) \o <<":">> \o e.arg
      [] e.op \in ConjunctiveCalls -> <<" ">> \o PrefixOf(e.op) \o <<":">> \o e.arg
      [] OTHER -> <<>>

RECURSIVE Concat(_)
\* the concatenation of a sequence of strings
Concat(ss) == IF ss = <<>> THEN <<>> ELSE Head(ss) \o Concat(Tail(ss))

\* "p0:v0 p1:v1 ... pn:vn" for the calls of l, in call order
ExpectedTerm(l) == Concat([i \in 1..Len(l) |-> TermPiece(l[i])])

\* the positions of l where option setter op was called
CallsOf(l, op) == {i \in 1..Len(l) : l[i].op = op}

\* the argument of the last call of setter op in l, absent if there is none
LastArg(l, op) ==
    IF CallsOf(l, op) = {} THEN None
    ELSE Some(l[CHOOSE i \in CallsOf(l, op) :
                    \A j \in CallsOf(l, op) : j <= i].arg)

\* the option field of value v that setter op sets
FieldOf(v, op) ==
    CASE op = "max_results" -> v.max_results
      [] op = "start_index" -> v.start_index
      [] op = "lang_restrict" -> v.lang_restrict
      [] op = "projection" -> v.projection
      [] op = "print_type" -> v.print_type

----------------------------------------------------------------------------
(* Reading a URL back: its query parameters, as (name, value) pairs *)

RECURSIVE SplitOn(_, _)
\* the pieces of s between the occurrences of character c
SplitOn(s, c) ==
    IF \A i \in 1..Len(s) : s[i] # c THEN <<s>>
    ELSE LET k == CHOOSE i \in 1..Len(s) :
                    s[i] = c /\ \A j \in 1..(i - 1) : s[j] # c
         IN <<SubSeq(s, 1, k - 1)>> \o SplitOn(SubSeq(s, k + 1, Len(s)), c)

\* what follows the first '?' of u (empty if there is none)
QueryOf(u) ==
    IF \A i \in 1..Len(u) : u[i] # "?" THEN <<>>
    ELSE LET k == CHOOSE i \in 1..Len(u) :
                    u[i] = "?" /\ \A j \in 1..(i - 1) : u[j] # "?"
         IN SubSeq(u, k + 1, Len(u))

\* one name=value piece as <<name, value>>, split at its first '='
PairOf(piece) ==
    LET parts == SplitOn(piece, "=")
    IN <<parts[1], SubSeq(piece, Len(parts[1]) + 2, Len(piece))>>

\* the (name, value) pairs of the query of u, values still encoded
ParamPairs(u) ==
    IF QueryOf(u) = <<>> THEN <<>>
    ELSE LET pieces == SplitOn(QueryOf(u), "&")
         IN [i \in 1..Len(pieces) |-> PairOf(pieces[i])]

ParamNames(u) == [i \in 1..Len(ParamPairs(u)) |-> ParamPairs(u)[i][1]]

N_q == <<"q">>

N_maxResults == <<"m", "a", "x", "R", "e", "s", "u", "l", "t", "s">>

N_startIndex == <<"s", "t", "a", "r", "t", "I", "n", "d", "e", "x">>

N_langRestrict == <<"l", "a", "n", "g", "R", "e", "s", "t", "r", "i", "c", "t">>

N_projection == <<"p", "r", "o", "j", "e", "c", "t", "i", "o", "n">>

N_printType == <<"p", "r", "i", "n", "t", "T", "y", "p", "e">>

N_key == <<"k", "e", "y">>

\* the subsequence of [q, maxResults, startIndex, langRestrict, projection,
\* printType, key] for the setters called in l and the key given
ExpectedNames(l, key) ==
    <<N_q>>
    \o (IF CallsOf(l, "max_results") # {} THEN <<N_maxResults>> ELSE <<>>)
    \o (IF CallsOf(l, "start_index") # {} THEN <<N_startIndex>> ELSE <<>>)
    \o (IF CallsOf(l, "lang_restrict") # {} THEN <<N_langRestrict>> ELSE <<>>)
    \o (IF CallsOf(l, "projection") # {} THEN <<N_projection>> ELSE <<>>)
    \o (IF CallsOf(l, "print_type") # {} THEN <<N_printType>> ELSE <<>>)
    \o (IF key.some THEN <<N_key>> ELSE <<>>)

\* the renderings of the two enumerations, as the service names them
RenderProjection(p) ==
    IF p = "Full" THEN <<"f", "u", "l", "l">> ELSE <<"l", "i", "t", "e">>

RenderPrintType(p) ==
    IF p = "All" THEN <<"a", "l", "l">>
    ELSE IF p = "Books" THEN <<"b", "o", "o", "k", "s">>
    ELSE <<"m", "a", "g", "a", "z", "i", "n", "e", "s">>

----------------------------------------------------------------------------
(* Claims about the builder, under Spec *)

\* C1: after a named constructor byP(v0) and any conjunctive calls
\* andP1(v1) .. andPn(vn), the term is exactly "p0:v0 p1:v1 ... pn:vn":
\* single-space-separated predicates in call order.
C1_TermIsPredicatesInCallOrder ==
    (query.some /\ log[1].op \in NamedConstructors)
        => query.val.q = ExpectedTerm(log)

\* a chain title(v0).and_author(v1).and_isbn(v2) whose term has the three
\* predicates in that order
C1_Witness ==
    /\ query.some
    /\ Len(log) = 3
    /\ log[1].op = "title" /\ log[2].op = "and_author" /\ log[3].op = "and_isbn"
    /\ log[1].arg # <<>> /\ log[2].arg = <<>>
    /\ query.val.q =
         <<"i", "n", "t", "i", "t", "l", "e", ":", "A", " ", "&", " ",
           "i", "n", "a", "u", "t", "h", "o", "r", ":", " ",
           "i", "s", "b", "n", ":">> \o log[3].arg

\* C2 (as claimed): the parameter names of the built URL are exactly the
\* subsequence of [q, maxResults, startIndex, langRestrict, projection,
\* printType, key] for q and the options that were set, one entry each.
C2_ParamNamesAreFixedSubsequence ==
    url.some => ParamNames(url.val) = ExpectedNames(log, None)

\* C3 (as claimed): projection and printType go under two distinct parameter
\* names, each with its own rendering, and no printType value is found under
\* the name projection.
C3_DistinctParameterNames ==
    url.some =>
        LET pairs == ParamPairs(url.val)
            v == query.val
        IN /\ v.projection.some =>
                \E i \in 1..Len(pairs) :
                    pairs[i] = <<N_projection, RenderProjection(v.projection.val)>>
           /\ v.print_type.some =>
                \E i \in 1..Len(pairs) :
                    pairs[i] = <<N_printType, RenderPrintType(v.print_type.val)>>
           /\ \A i \in 1..Len(pairs) :
                pairs[i][1] = N_projection =>
                    pairs[i][2] \in {RenderProjection(p) : p \in Projections}

\* C5 (as claimed): no query has an empty term, whatever constructor and
\* builder calls made it (an empty seed would have been refused).
C5_TermNeverEmpty == query.some => query.val.q # <<>>

\* C10, the stored values: each option field holds the argument of the last
\* call of its setter, as given, or is absent if the setter was never called
OptionsHoldLastArgs ==
    query.some =>
        \A op \in OptionSetters : FieldOf(query.val, op) = LastArg(log, op)

\* C10, the frame: a setter call stores its argument and leaves the term and
\* the four other option fields as they were
SetterFrame ==
    (query.some /\ query'.some /\ Len(log') = Len(log) + 1
        /\ log'[Len(log')].op \in OptionSetters)
    => LET e == log'[Len(log')]
       IN /\ query'.val.q = query.val.q
          /\ FieldOf(query'.val, e.op) = Some(e.arg)
          /\ \A op \in OptionSetters \ {e.op} :
                FieldOf(query'.val, op) = FieldOf(query.val, op)

\* C10: after any sequence of option-setter calls each option field holds the
\* argument of the last call made for it (absent if none, a negative
\* maxResults stored as given), and each setter leaves the term and the other
\* four option fields unchanged.
C10_SettersStoreLastAndFrame == []OptionsHoldLastArgs /\ [][SetterFrame]_vars

\* max_results(5) then max_results(-1): the field holds -1
C10_Witness ==
    /\ query.some
    /\ Len(log) = 3
    /\ log[2].op = "max_results" /\ log[2].arg = 5
    /\ log[3].op = "max_results" /\ log[3].arg = 0 - 1
    /\ query.val.max_results = Some(0 - 1)

----------------------------------------------------------------------------
(* What a body is, read from the wire schemas alone *)

\* the 2xx class
Is2xx(status) == status \div 100 = 2

\* the success payload: kind: string and totalItems: int present
IsSuccessPayload(b) == b.json /\ b.kind # None /\ b.totalItems # None

\* the payload as decoded
PayloadOf(b) ==
    [kind |-> b.kind.val, total_items |-> b.totalItems.val, items |-> None]

\* the error envelope: error.code a uint16, error.message a string, and every
\* item of error.errors, if the list is there, with its reason
IsEnvelope(b) ==
    /\ b.json
    /\ b.error # None
    /\ b.error.val.code \in 0..65535
    /\ b.error.val.message # None
    /\ \/ b.error.val.errors = None
       \/ \A it \in {b.error.val.errors.val[i] :
                        i \in 1..Len(b.error.val.errors.val)} : it.reason # None

\* the reasons of the items of the envelope's errors list, in order (empty if
\* the list is missing)
ReasonsOf(b) ==
    IF b.error.val.errors = None THEN <<>>
    ELSE [i \in 1..Len(b.error.val.errors.val) |->
            b.error.val.errors.val[i].reason.val]

\* a call has ended on a response of the transport
Resolved == pc = "done" /\ response.some

----------------------------------------------------------------------------
(* Claims about the client, under SpecClient *)

\* C4 (as claimed): with an API key configured, the URL search requests has a
\* parameter named key carrying it, after all other parameters; with no API
\* key the URL has no key parameter.
C4_KeyIsLastParameter ==
    (call = "search" /\ url.some) =>
        LET pairs == ParamPairs(url.val)
        IN /\ api_key.some =>
                pairs[Len(pairs)] = <<N_key, form_urlencode(api_key.val)>>
           /\ ~api_key.some => \A i \in 1..Len(pairs) : pairs[i][1] # N_key

\* C6: the status alone picks the shape decoded. On 2xx the result is
\* Success(parsed) if the body is a success payload and DeserializationError
\* if not, never RateLimitExceeded or RemoteApiError; on non-2xx it is never
\* Success, and DeserializationError if the body is no error envelope.
C6_ShapeChosenByStatus ==
    Resolved =>
        LET s == response.val.status
            b == response.val.body.val
            r == result.val
        IN /\ Is2xx(s) =>
                /\ IsSuccessPayload(b) => r = Ok(PayloadOf(b))
                /\ ~IsSuccessPayload(b) => r = Err_DeserializeJson
                /\ r.tag \notin {"RateLimitExceeded", "GoogleApi"}
           /\ ~Is2xx(s) =>
                /\ r.tag # "Ok"
                /\ ~IsEnvelope(b) => r = Err_DeserializeJson

\* a 2xx response whose body is a valid error envelope (code 429) and no
\* success payload ends in DeserializeJson; nothing is sniffed
C6_Witness ==
    /\ Resolved
    /\ response.val.status = 204
    /\ IsEnvelope(response.val.body.val)
    /\ response.val.body.val.error.val.code = 429
    /\ ~IsSuccessPayload(response.val.body.val)
    /\ result.val = Err_DeserializeJson

\* C7: on a non-2xx status with an error envelope, the result is
\* RateLimitExceeded with the envelope's message exactly when the envelope's
\* code is 429, whatever the HTTP status is.
C7_RateLimitDecidedByEnvelopeCode ==
    (Resolved /\ ~Is2xx(response.val.status) /\ IsEnvelope(response.val.body.val)) =>
        LET e == response.val.body.val.error.val
        IN /\ e.code = 429 =>
                result.val = Err_RateLimitExceeded(e.message.val)
           /\ e.code # 429 => result.val.tag # "RateLimitExceeded"

\* HTTP 500 with envelope code 429 is RateLimitExceeded with its message
C7_Witness ==
    /\ Resolved
    /\ response.val.status = 500
    /\ IsEnvelope(response.val.body.val)
    /\ response.val.body.val.error.val.code = 429
    /\ result.val = Err_RateLimitExceeded("Quota exceeded")

\* C8: on a non-2xx status with an error envelope of code other than 429, the
\* result is RemoteApiError with the envelope's code and message unchanged
\* and the reason of the first item of its errors list, absent if the list is
\* missing or empty.
C8_RemoteApiErrorCarriesEnvelope ==
    (Resolved /\ ~Is2xx(response.val.status) /\ IsEnvelope(response.val.body.val)
        /\ response.val.body.val.error.val.code # 429) =>
        LET e == response.val.body.val.error.val
            rs == ReasonsOf(response.val.body.val)
        IN result.val =
            Err_GoogleApi(e.code, e.message.val,
                          IF rs = <<>> THEN None ELSE Some(rs[1]))

\* HTTP 429 with envelope code 404 and two items of different reasons: the
\* first item's reason is carried
C8_Witness ==
    /\ Resolved
    /\ call = "search"
    /\ response.val.status = 429
    /\ IsEnvelope(response.val.body.val)
    /\ ReasonsOf(response.val.body.val) = <<"notFound", "rateLimitExceeded">>
    /\ result.val = Err_GoogleApi(404, "Not Found", Some("notFound"))

\* C9: a call issues exactly one GET. If the GET fails the call ends with the
\* transport error, no second GET and no body decoded; if it completes the
\* call ends with the resolution of that one (status, body).
C9_ExactlyOneGet ==
    /\ gets <= 1
    /\ decodes <= 1
    /\ pc # "idle" => gets = 1
    /\ pc \in {"idle", "awaiting", "responded"} => decodes = 0
    /\ pc # "done" => result = None
    /\ pc = "decoding" => (decodes = 1 /\ response.some)
    /\ (pc = "done" /\ ~response.some) =>
            (result = Some(Err_Http) /\ decodes = 0)
    /\ (pc = "done" /\ response.some) =>
            /\ decodes = 1
            /\ result.val.tag # "Http"
            /\ call = "search" =>
                result.val =
                    search_resolve(response.val.status, response.val.body.val)
            /\ call = "search_by_id" =>
                result.val =
                    search_by_id_resolve(response.val.status,
                                         response.val.body.val)

\* a call that ended on a transport failure after its one GET
C9_Witness ==
    /\ pc = "done"
    /\ call = "search_by_id"
    /\ ~response.some
    /\ gets = 1
    /\ result = Some(Err_Http)

====
